---------------------------- MODULE Spec2Model ----------------------------
(***************************************************************************)
(* A model of libcompose's manifest merge engine (config/merge.go):        *)
(* version classification, the Merge pipeline, mergeConfig and            *)
(* readEnvFile.  Go strings whose characters matter (version strings, env  *)
(* entries) are sequences of one-character strings.                        *)
(***************************************************************************)
EXTENDS Integers, Sequences, FiniteSets, TLC

VARIABLES
    version,        \* Spec, SpecVersion: Config.Version of the manifest
    verResult,      \* SpecVersion: what getComposeMajorVersion returned
    pc,             \* position of the running operation
    options,        \* Spec: the *ParseOptions argument of Merge
    services,       \* Spec: baseRawServices
    volumes,        \* Spec: config.Volumes
    networks,       \* Spec: config.Networks
    parsed,         \* Spec: history, the services as CreateConfig parsed them
    merged,         \* Spec: history, the services as the version merge returned them
    flat,           \* Spec: CreateConfig re-parsed the services as a flat v1 map
    serviceConfigs, \* Spec: map[string]*ServiceConfig
    ret,            \* Spec: the values Merge returned
    trace,          \* Spec: history, the stages run so far
    failedAt,       \* Spec: history, the stage that failed
    preSaw,         \* Spec: history, the argument the Preprocess hook got
    postSaw,        \* Spec: history, the argument the Postprocess hook got
    baseService,    \* SpecMergeConfig: the accumulated RawService
    applied,        \* SpecMergeConfig: history, the manifests folded in
    envIn,          \* SpecEnv: the arguments of readEnvFile
    envOut          \* SpecEnv: what readEnvFile returned

vars == <<version, verResult, pc, options, services, volumes, networks, parsed, merged, flat,
          serviceConfigs, ret, trace, failedAt, preSaw, postSaw,
          baseService, applied, envIn, envOut>>

mergeVars == <<options, services, volumes, networks, parsed, merged, flat, serviceConfigs,
               ret, trace, failedAt, preSaw, postSaw>>
foldVars == <<baseService, applied>>
envVars == <<envIn, envOut>>

None == "none"

(***************************************************************************)
(* Strings as sequences of characters.                                     *)
(***************************************************************************)
RECURSIVE SeqsUpTo(_, _)
SeqsUpTo(S, n) ==
    IF n = 0 THEN {<<>>}
    ELSE LET shorter == SeqsUpTo(S, n - 1)
         IN  shorter \cup {Append(s, c) : s \in {t \in shorter : Len(t) = n - 1}, c \in S}

\* strings.HasPrefix
HasPrefix(s, prefix) ==
    /\ Len(prefix) <= Len(s)
    /\ SubSeq(s, 1, Len(prefix)) = prefix

\* the index of the first occurrence of character c in s, 0 when there is none
RECURSIVE IndexFrom(_, _, _)
IndexFrom(s, c, i) ==
    IF i > Len(s) THEN 0
    ELSE IF s[i] = c THEN i
    ELSE IndexFrom(s, c, i + 1)

Index(s, c) == IndexFrom(s, c, 1)

\* strings.Split(s, sep) for a one-character separator
RECURSIVE Split(_, _)
Split(s, sep) ==
    LET i == Index(s, sep)
    IN  IF i = 0 THEN <<s>>
        ELSE <<SubSeq(s, 1, i - 1)>> \o Split(SubSeq(s, i + 1, Len(s)), sep)

Digits == {"0", "1", "2", "3", "4", "5", "6", "7", "8", "9"}

DigitVal(c) ==
    CASE c = "0" -> 0 [] c = "1" -> 1 [] c = "2" -> 2 [] c = "3" -> 3
      [] c = "4" -> 4 [] c = "5" -> 5 [] c = "6" -> 6 [] c = "7" -> 7
      [] c = "8" -> 8 [] c = "9" -> 9

RECURSIVE DecimalVal(_)
DecimalVal(s) ==
    IF s = <<>> THEN 0
    ELSE 10 * DecimalVal(SubSeq(s, 1, Len(s) - 1)) + DigitVal(s[Len(s)])

\* strconv.Atoi: an optional sign, then one or more decimal digits;
\* anything else is a syntax error and the value returned with it is 0.
Atoi(s) ==
    LET signed == s /= <<>> /\ s[1] \in {"+", "-"}
        body == IF signed THEN SubSeq(s, 2, Len(s)) ELSE s
    IN  IF body = <<>> \/ \E i \in 1..Len(body) : body[i] \notin Digits
        THEN [major |-> 0, err |-> "syntax"]
        ELSE [major |-> IF signed /\ s[1] = "-" THEN 0 - DecimalVal(body)
                        ELSE DecimalVal(body),
              err |-> ""]

(***************************************************************************)
(* getComposeMajorVersion                                                  *)
(***************************************************************************)
getComposeMajorVersion(v) ==
    IF v = <<>> THEN [major |-> 1, err |-> ""]
    ELSE LET parts == Split(v, ".")
         IN  IF Len(parts) = 1 THEN Atoi(v)
             ELSE IF Len(parts) = 2 THEN Atoi(parts[1])
             ELSE [major |-> 0 - 1, err |-> "invalid"]

MaxVerLen == 3
VerChars == {"1", "2", "3", ".", "x", "-"}

(***************************************************************************)
(* Values every specification gives the variables it does not use.         *)
(***************************************************************************)
NoVerResult == [major |-> 0, err |-> "unset"]
NoRet == [version |-> <<>>, services |-> [nil |-> TRUE, val |-> <<>>],
          volumes |-> [nil |-> TRUE, val |-> <<>>],
          networks |-> [nil |-> TRUE, val |-> <<>>], err |-> "unset"]

VersionIdle == version = <<>> /\ verResult = NoVerResult
MergeIdle ==
    /\ options = None /\ services = None /\ volumes = None /\ networks = None
    /\ parsed = None /\ merged = None
    /\ flat = FALSE /\ serviceConfigs = None /\ ret = NoRet /\ trace = <<>>
    /\ failedAt = None /\ preSaw = None /\ postSaw = None
FoldIdle == baseService = None /\ applied = <<>>
EnvIdle == envIn = None /\ envOut = None

(***************************************************************************)
(* SpecVersion: getComposeMajorVersion applied to every bounded string.    *)
(***************************************************************************)
InitVersion ==
    /\ version \in SeqsUpTo(VerChars, MaxVerLen)
    /\ verResult = NoVerResult
    /\ pc = "ver_call"
    /\ MergeIdle /\ FoldIdle /\ EnvIdle

Classify ==
    /\ pc = "ver_call"
    /\ verResult' = getComposeMajorVersion(version)
    /\ pc' = "ver_done"
    /\ UNCHANGED <<version, mergeVars, foldVars, envVars>>

NextVersion == Classify

SpecVersion == InitVersion /\ [][NextVersion]_vars

\* what the claim's classification gives for version string v
IsIntToken(s) == Atoi(s).err = ""

ClaimedVersionOk(v) ==
    \/ v = <<>>
    \/ Len(Split(v, ".")) = 1 /\ IsIntToken(v)
    \/ /\ Len(Split(v, ".")) = 2
       /\ IsIntToken(Split(v, ".")[1])
       /\ IsIntToken(Split(v, ".")[2])

ClaimedMajor(v) == IF v = <<>> THEN 1 ELSE Atoi(Split(v, ".")[1]).major

\* C4: the empty string is major version 1, a single integer token is that
\* integer, exactly two dot-delimited integer tokens give the first one, and
\* every other version string yields an error.
C4_VersionClassification ==
    pc = "ver_done" =>
        IF ClaimedVersionOk(version)
        THEN verResult = [major |-> ClaimedMajor(version), err |-> ""]
        ELSE verResult.err /= ""

(***************************************************************************)
(* readEnvFile                                                             *)
(***************************************************************************)
\* strings.TrimSpace, for the space character
RECURSIVE TrimLeft(_)
TrimLeft(s) ==
    IF s /= <<>> /\ s[1] = " " THEN TrimLeft(SubSeq(s, 2, Len(s))) ELSE s

RECURSIVE TrimRight(_)
TrimRight(s) ==
    IF s /= <<>> /\ s[Len(s)] = " " THEN TrimRight(SubSeq(s, 1, Len(s) - 1)) ELSE s

TrimSpace(s) == TrimRight(TrimLeft(s))

\* strings.SplitAfter(line, "=")[0]: the line up to and including its first "=",
\* the whole line when it has none
SplitAfterFirst(line) ==
    LET i == Index(line, "=")
    IN  IF i = 0 THEN line ELSE SubSeq(line, 1, i)

\* lines 238-257: the scan of one file's lines into vars
RECURSIVE ScanLines(_, _, _)
ScanLines(envVarsIn, lines, j) ==
    IF j > Len(lines) THEN envVarsIn
    ELSE LET line == TrimSpace(lines[j])
             key == SplitAfterFirst(line)
             found == \E n \in 1..Len(envVarsIn) : HasPrefix(envVarsIn[n], key)
         IN  IF Len(line) > 0 /\ ~HasPrefix(line, <<"#">>) /\ ~found
             THEN ScanLines(Append(envVarsIn, line), lines, j + 1)
             ELSE ScanLines(envVarsIn, lines, j + 1)

\* lines 227-262: the env files, last-declared first
RECURSIVE ReadFiles(_, _, _)
ReadFiles(envVarsIn, envFiles, i) ==
    IF i < 1 THEN [vars |-> envVarsIn, err |-> ""]
    ELSE IF ~envFiles[i].ok THEN [vars |-> <<>>, err |-> "lookup"]
    ELSE ReadFiles(ScanLines(envVarsIn, envFiles[i].lines, 1), envFiles, i - 1)

EnvUnchanged(in) ==
    [err |-> "", envKind |-> in.envKind, environment |-> in.environment]
EnvError(e) == [err |-> e, envKind |-> "absent", environment |-> <<>>]

readEnvFile(in) ==
    IF in.envFileKind = "absent" THEN EnvUnchanged(in)
    ELSE IF in.envFileKind = "bad" THEN EnvError("convert env_file")
    ELSE IF Len(in.envFiles) = 0 THEN EnvUnchanged(in)
    ELSE IF ~in.hasLookup THEN EnvError("no lookup")
    ELSE IF in.envKind = "bad" THEN EnvError("convert environment")
    ELSE LET seed == IF in.envKind = "list" THEN in.environment ELSE <<>>
             r == ReadFiles(seed, in.envFiles, Len(in.envFiles))
         IN  IF r.err /= "" THEN EnvError(r.err)
             ELSE [err |-> "", envKind |-> "list", environment |-> r.vars]

(***************************************************************************)
(* SpecEnv: readEnvFile applied to bounded services.                       *)
(***************************************************************************)
MaxLines == 2
MaxEnvFiles == 2
MaxEnvLen == 2

LineVals == { <<"A", "=", "2">>, <<"A", "=", "3">>, <<" ", "B", "=", "3", " ">>,
              <<"A">>, <<"#", "B", "=", "9">>, <<" ">> }
EnvVals == { <<"A", "=", "1">>, <<"A">>, <<"A", "B", "=", "1">> }

FileVals == {[ok |-> TRUE, lines |-> l] : l \in SeqsUpTo(LineVals, MaxLines)}
                \cup {[ok |-> FALSE, lines |-> <<>>]}

\* the services readEnvFile is applied to
IsEnvInput(in) ==
    \/ \E fs \in SeqsUpTo(FileVals, MaxEnvFiles), e \in SeqsUpTo(EnvVals, MaxEnvLen) :
          in = [envFileKind |-> "list", envFiles |-> fs, hasLookup |-> TRUE,
                envKind |-> "list", environment |-> e]
    \/ \E k \in {"absent", "bad"}, e \in SeqsUpTo(EnvVals, MaxEnvLen) :
          in = [envFileKind |-> k, envFiles |-> <<>>, hasLookup |-> TRUE,
                envKind |-> "list", environment |-> e]
    \/ \E fs \in SeqsUpTo(FileVals, MaxEnvFiles), h \in BOOLEAN, k \in {"absent", "bad"} :
          in = [envFileKind |-> "list", envFiles |-> fs, hasLookup |-> h,
                envKind |-> k, environment |-> <<>>]

InitEnv ==
    /\ IsEnvInput(envIn)
    /\ envOut = None
    /\ pc = "env_call"
    /\ VersionIdle /\ MergeIdle /\ FoldIdle

ReadEnvFile ==
    /\ pc = "env_call"
    /\ envOut' = readEnvFile(envIn)
    /\ pc' = "env_done"
    /\ UNCHANGED <<envIn, version, verResult, mergeVars, foldVars>>

NextEnv == ReadEnvFile

SpecEnv == InitEnv /\ [][NextEnv]_vars

\* the key an entry defines: what precedes its first "=", the entry itself
\* when it has none
KeyOf(e) ==
    LET i == Index(e, "=")
    IN  IF i = 0 THEN e ELSE SubSeq(e, 1, i - 1)

\* the entries a file contributes candidates from
IsEntryLine(l) == TrimSpace(l) /= <<>> /\ ~HasPrefix(TrimSpace(l), <<"#">>)
FileDefines(f, K) ==
    \E j \in 1..Len(f.lines) :
        IsEntryLine(f.lines[j]) /\ KeyOf(TrimSpace(f.lines[j])) = K
ListDefines(E, K) == \E n \in 1..Len(E) : KeyOf(E[n]) = K

EnvKeys(in) ==
    {KeyOf(in.environment[n]) : n \in 1..Len(in.environment)}
    \cup UNION {{KeyOf(TrimSpace(in.envFiles[i].lines[j])) :
                    j \in {k \in 1..Len(in.envFiles[i].lines) :
                              IsEntryLine(in.envFiles[i].lines[k])}} :
                i \in 1..Len(in.envFiles)}

\* the case C1 is about: an explicit environment list, a non-empty env_file
\* list, every lookup succeeding
EnvCase(in) ==
    /\ in.envFileKind = "list" /\ in.envKind = "list" /\ in.hasLookup
    /\ Len(in.envFiles) > 0
    /\ \A i \in 1..Len(in.envFiles) : in.envFiles[i].ok

EnvPrecedence(in, out) ==
    LET E == in.environment
        R == out.environment
        fromFiles == SubSeq(R, Len(E) + 1, Len(R))
        at(K) == {n \in 1..Len(fromFiles) : KeyOf(fromFiles[n]) = K}
        lastFile(K) ==
            CHOOSE i \in 1..Len(in.envFiles) :
                /\ FileDefines(in.envFiles[i], K)
                /\ \A k \in (i + 1)..Len(in.envFiles) : ~FileDefines(in.envFiles[k], K)
    IN  /\ out.err = ""
        /\ HasPrefix(R, E)
        /\ \A K \in EnvKeys(in) :
              IF ListDefines(E, K) THEN at(K) = {}
              ELSE /\ Cardinality(at(K)) = 1
                   /\ \E j \in 1..Len(in.envFiles[lastFile(K)].lines) :
                         /\ IsEntryLine(in.envFiles[lastFile(K)].lines[j])
                         /\ \A n \in at(K) :
                               fromFiles[n] = TrimSpace(in.envFiles[lastFile(K)].lines[j])

\* C1: the result starts with the explicit entries in order; a key the
\* explicit list defines gets no entry from a file, and any other key gets
\* exactly one entry, from the last-declared env file that defines it.
C1_EnvPrecedence ==
    pc = "env_done" /\ EnvCase(envIn) => EnvPrecedence(envIn, envOut)

(***************************************************************************)
(* mergeConfig.  An untyped value is [k, v, m]: a scalar (k = "str", v its *)
(* one element), a sequence (k = "seq", v its elements) or a mapping       *)
(* (k = "map", m its <<key, value>> pairs).  A RawService is a function    *)
(* from the field names it holds to values.                                *)
(***************************************************************************)
noMerge == {"links", "volumes_from"}

Scalar(x) == [k |-> "str", v |-> <<x>>, m |-> {}]
Sequence(xs) == [k |-> "seq", v |-> xs, m |-> {}]
Mapping(pairs) == [k |-> "map", v |-> <<>>, m |-> pairs]

MapKeys(pairs) == {p[1] : p \in pairs}

\* merge(existing, value): two sequences are appended, two mappings are merged
\* key by key with the incoming keys overriding, anything else is replaced
merge(existing, value) ==
    IF existing.k = "seq" /\ value.k = "seq"
    THEN Sequence(existing.v \o value.v)
    ELSE IF existing.k = "map" /\ value.k = "map"
    THEN Mapping({p \in existing.m : p[1] \notin MapKeys(value.m)} \cup value.m)
    ELSE value

\* a plausible slip: an existing field is overwritten instead of merged
mergeConfig_Overwrite(baseSvc, serviceData) ==
    [f \in (DOMAIN baseSvc) \cup (DOMAIN serviceData) |->
        IF f \in DOMAIN serviceData THEN serviceData[f] ELSE baseSvc[f]]

mergeConfig(baseSvc, serviceData) ==
    [f \in (DOMAIN baseSvc) \cup (DOMAIN serviceData) |->
        IF f \in DOMAIN serviceData
        THEN IF f \in DOMAIN baseSvc
             THEN merge(baseSvc[f], serviceData[f])
             ELSE serviceData[f]
        ELSE baseSvc[f]]

(***************************************************************************)
(* SpecMergeConfig: manifests folded left to right into one service.       *)
(***************************************************************************)
MaxManifests == 2

Absent == [k |-> "absent", v |-> <<>>, m |-> {}]
SeqVals == {Sequence(<<"x">>), Sequence(<<"y", "x">>)}
LinksVals == {Absent} \cup SeqVals
VolumesFromVals == {Absent, Sequence(<<"x">>)}
PortsVals == {Absent, Scalar("s")} \cup SeqVals
LabelsVals == {Absent, Mapping({<<"a", "1">>}), Mapping({<<"a", "2">>, <<"b", "1">>})}

\* the RawService holding the fields of record r that are not Absent
RawServiceOf(r) ==
    [f \in {g \in DOMAIN r : r[g] /= Absent} |-> r[f]]

ManifestServices ==
    {RawServiceOf([links |-> l, volumes_from |-> vf, ports |-> p, labels |-> lb]) :
        l \in LinksVals, vf \in VolumesFromVals, p \in PortsVals, lb \in LabelsVals}

EmptyService == [f \in {} |-> Absent]

InitMergeConfig ==
    /\ baseService = EmptyService
    /\ applied = <<>>
    /\ pc = "fold"
    /\ VersionIdle /\ MergeIdle /\ EnvIdle

MergeManifest ==
    /\ pc = "fold"
    /\ Len(applied) < MaxManifests
    /\ \E serviceData \in ManifestServices :
          /\ baseService' = mergeConfig(baseService, serviceData)
          /\ applied' = Append(applied, serviceData)
    /\ UNCHANGED <<pc, version, verResult, mergeVars, envVars>>

NextMergeConfig == MergeManifest

SpecMergeConfig == InitMergeConfig /\ [][NextMergeConfig]_vars

\* C2: when the accumulated service holds a sequence under a non-mergeable
\* field and the incoming manifest supplies a sequence for it, the field is
\* exactly the incoming sequence after mergeConfig.
C2_NoMergeReplaced ==
    [][\A f \in noMerge :
          ( /\ f \in DOMAIN baseService /\ baseService[f].k = "seq"
            /\ applied' /= applied
            /\ f \in DOMAIN applied'[Len(applied')]
            /\ applied'[Len(applied')][f].k = "seq" )
          => baseService'[f] = applied'[Len(applied')][f]]_vars

\* the values manifests i..Len(ms) supply for field f, appended in order
RECURSIVE ConcatField(_, _, _)
ConcatField(ms, f, i) ==
    IF i > Len(ms) THEN <<>>
    ELSE (IF f \in DOMAIN ms[i] THEN ms[i][f].v ELSE <<>>) \o ConcatField(ms, f, i + 1)

Supplies(ms, f) == {i \in 1..Len(ms) : f \in DOMAIN ms[i]}
SequenceFields == {"ports"}

\* C3: a sequence field other than links/volumes_from equals the values the
\* manifests supplied for it, appended in the order they were applied.
C3_SequencesConcatenate ==
    \A f \in SequenceFields :
        ( /\ Supplies(applied, f) /= {}
          /\ \A i \in Supplies(applied, f) : applied[i][f].k = "seq" )
        => /\ f \in DOMAIN baseService
           /\ baseService[f] = Sequence(ConcatField(applied, f, 1))

\* two manifests each supplied a non-empty ports sequence
C3_Witness ==
    /\ Len(applied) >= 2
    /\ \A i \in 1..2 : "ports" \in DOMAIN applied[i] /\ applied[i]["ports"].k = "seq"
    /\ applied[1]["ports"] /= applied[2]["ports"]
    /\ "ports" \in DOMAIN baseService
    /\ Len(baseService["ports"].v) = 3

(***************************************************************************)
(* The Merge pipeline.  A map that may be nil is [nil, val].               *)
(***************************************************************************)
NilMap == [nil |-> TRUE, val |-> <<>>]
MapOf(m) == [nil |-> FALSE, val |-> m]
Unset == [set |-> FALSE, val |-> <<>>]
Seen(m) == [set |-> TRUE, val |-> m]

BoolVal(x) == [k |-> "bool", v |-> <<x>>, m |-> {}]
IntVal(x) == [k |-> "int", v |-> <<x>>, m |-> {}]
NilVal == [k |-> "nil", v |-> <<>>, m |-> {}]

\* lines 24-27
defaultParseOptions ==
    [isNil |-> FALSE, Interpolate |-> TRUE, Validate |-> TRUE,
     Preprocess |-> "nil", Postprocess |-> "nil"]

\* lines 80-82
Opts == IF options.isNil THEN defaultParseOptions ELSE options

\* a plausible slip: the error return keeps the manifest's version
ErrorReturn_KeepsVersion(e) ==
    [version |-> version, services |-> NilMap, volumes |-> NilMap,
     networks |-> NilMap, err |-> e]

\* return "", nil, nil, nil, err
ErrorReturn(e) ==
    [version |-> <<>>, services |-> NilMap, volumes |-> NilMap,
     networks |-> NilMap, err |-> e]

\* a stage fails: Merge returns at once
Fail(stage, e) ==
    /\ pc' = "returned"
    /\ ret' = ErrorReturn(e)
    /\ failedAt' = stage
    /\ trace' = Append(trace, stage)

Major == getComposeMajorVersion(version).major

\* lines 84-87 and CreateConfig, lines 50-76
CreateConfig ==
    /\ pc = "start"
    /\ \/ \* yaml.Unmarshal fails, line 52
          /\ Fail("parse", "yaml")
          /\ UNCHANGED flat
       \/ \* the version string is invalid, lines 56-59
          /\ getComposeMajorVersion(version).err /= ""
          /\ Fail("parse", getComposeMajorVersion(version).err)
          /\ UNCHANGED flat
       \/ \* the flat v1 re-parse fails, lines 60-64
          /\ getComposeMajorVersion(version).err = ""
          /\ Major < 2
          /\ Fail("parse", "yaml v1")
          /\ UNCHANGED flat
       \/ /\ getComposeMajorVersion(version).err = ""
          /\ flat' = (Major < 2)
          /\ pc' = "extends"
          /\ trace' = Append(trace, "parse")
          /\ UNCHANGED <<ret, failedAt>>
    /\ UNCHANGED <<version, verResult, options, services, volumes, networks,
                   parsed, merged, serviceConfigs, preSaw, postSaw, foldVars, envVars>>

\* a plausible slip: every extends value is wrapped, whatever its kind
NormalizeService_WrapsAll(svc) ==
    [f \in DOMAIN svc |->
        IF f = "extends" /\ svc[f].k /= "nil"
        THEN Mapping({<<"service", IF svc[f].v = <<>> THEN "" ELSE svc[f].v[1]>>})
        ELSE svc[f]]

\* lines 91-99: the extends shorthand of one service
NormalizeService(svc) ==
    [f \in DOMAIN svc |->
        IF f = "extends" /\ svc[f].k = "str"
        THEN Mapping({<<"service", svc[f].v[1]>>})
        ELSE svc[f]]

\* reflect.TypeOf(nil) is nil, and Kind() on it panics
ExtendsPanics(m) ==
    \E name \in DOMAIN m : "extends" \in DOMAIN m[name] /\ m[name]["extends"].k = "nil"

\* lines 90-100
NormalizeExtends ==
    /\ pc = "extends"
    /\ IF ExtendsPanics(services)
       THEN /\ pc' = "panicked"
            /\ UNCHANGED <<services, trace>>
       ELSE /\ services' = [name \in DOMAIN services |-> NormalizeService(services[name])]
            /\ trace' = Append(trace, "extends")
            /\ pc' = IF Opts.Interpolate THEN "interpolate" ELSE "preprocess"
    /\ UNCHANGED <<version, verResult, options, volumes, networks, parsed, merged, flat,
                   serviceConfigs, ret, failedAt, preSaw, postSaw, foldVars, envVars>>

\* Interpolate on one string: $X is looked up, a reference left open fails
InterpolateString(x) == IF x = "$X" THEN "xval" ELSE x
MalformedString(x) == x = "${"

InterpolateFails(val) ==
    \/ val.k \in {"str", "seq"} /\ \E i \in 1..Len(val.v) : MalformedString(val.v[i])
    \/ val.k = "map" /\ \E p \in val.m : MalformedString(p[2])

InterpolateValue(val) ==
    IF val.k \in {"str", "seq"}
    THEN [val EXCEPT !.v = [i \in 1..Len(val.v) |-> InterpolateString(val.v[i])]]
    ELSE IF val.k = "map"
    THEN [val EXCEPT !.m = {<<p[1], InterpolateString(p[2])>> : p \in val.m}]
    ELSE val

\* a plausible slip: the interpolated value is not written back
InterpolateRawServiceMap_NoWriteBack(m) == m

\* lines 179-189
InterpolateRawServiceMap(m) ==
    [name \in DOMAIN m |-> [f \in DOMAIN m[name] |-> InterpolateValue(m[name][f])]]

RawServiceMapFails(m) ==
    \E name \in DOMAIN m : \E f \in DOMAIN m[name] : InterpolateFails(m[name][f])
RawMapFails(m) == \E name \in DOMAIN m : InterpolateFails(m[name])

\* lines 102-120
InterpolateAll ==
    /\ pc = "interpolate"
    /\ IF RawServiceMapFails(services) \/ RawMapFails(volumes) \/ RawMapFails(networks)
       THEN /\ Fail("interpolate", "interpolation")
            /\ UNCHANGED <<services, volumes, networks>>
       ELSE /\ services' = InterpolateRawServiceMap(services)
            /\ volumes' = [name \in DOMAIN volumes |-> InterpolateValue(volumes[name])]
            /\ networks' = [name \in DOMAIN networks |-> InterpolateValue(networks[name])]
            /\ trace' = Append(trace, "interpolate")
            /\ pc' = "preprocess"
            /\ UNCHANGED <<ret, failedAt>>
    /\ UNCHANGED <<version, verResult, options, parsed, merged, flat, serviceConfigs,
                   preSaw, postSaw, foldVars, envVars>>

\* the caller's Preprocess hooks the model draws from
PreprocessHook(kind, m) ==
    IF kind = "err" THEN [val |-> m, err |-> "preprocess"]
    ELSE IF kind = "norestart"
    THEN [val |-> [name \in DOMAIN m |->
                     [f \in (DOMAIN m[name]) \ {"restart"} |-> m[name][f]]],
          err |-> ""]
    ELSE [val |-> m, err |-> ""]

\* lines 122-128
Preprocess ==
    /\ pc = "preprocess"
    /\ IF Opts.Preprocess = "nil"
       THEN /\ pc' = "dispatch"
            /\ UNCHANGED <<services, preSaw, trace, ret, failedAt>>
       ELSE /\ preSaw' = Seen(services)
            /\ IF PreprocessHook(Opts.Preprocess, services).err /= ""
               THEN /\ Fail("preprocess", "preprocess")
                    /\ UNCHANGED services
               ELSE /\ services' = PreprocessHook(Opts.Preprocess, services).val
                    /\ trace' = Append(trace, "preprocess")
                    /\ pc' = "dispatch"
                    /\ UNCHANGED <<ret, failedAt>>
    /\ UNCHANGED <<version, verResult, options, volumes, networks, parsed, merged, flat,
                   serviceConfigs, postSaw, foldVars, envVars>>

\* the typed ServiceConfig a raw service converts to: a scalar field is
\* stringified, so the boolean the YAML parser makes of `no` becomes "false"
StringOf(svc, f) ==
    IF f \in DOMAIN svc /\ svc[f].v /= <<>> THEN svc[f].v[1] ELSE ""

ToServiceConfig(svc) ==
    [Restart |-> StringOf(svc, "restart"), Image |-> StringOf(svc, "image")]

ToServiceConfigs(m) == [name \in DOMAIN m |-> ToServiceConfig(m[name])]

\* line 138: logrus.Fatal logs and ends the process with os.Exit(1)
FatalV3 ==
    /\ pc = "dispatch"
    /\ Major = 3
    /\ pc' = "exited"
    /\ UNCHANGED <<version, verResult, mergeVars, foldVars, envVars>>

\* lines 139-144
MergeV2 ==
    /\ pc = "dispatch"
    /\ Major = 2
    /\ \/ /\ Fail("mergeV2", "merge v2")
          /\ UNCHANGED <<serviceConfigs, merged>>
       \/ /\ serviceConfigs' = MapOf(ToServiceConfigs(services))
          /\ merged' = Seen(ToServiceConfigs(services))
          /\ trace' = Append(trace, "mergeV2")
          /\ pc' = "adjust"
          /\ UNCHANGED <<ret, failedAt>>
    /\ UNCHANGED <<version, verResult, options, services, volumes, networks, parsed,
                   flat, preSaw, postSaw, foldVars, envVars>>

\* lines 145-149: the default branch of the switch
MergeV1 ==
    /\ pc = "dispatch"
    /\ Major \notin {2, 3}
    /\ \/ /\ Fail("mergeV1", "merge v1")
       \/ /\ trace' = Append(trace, "mergeV1")
          /\ pc' = "convertV1"
          /\ UNCHANGED <<ret, failedAt>>
    /\ UNCHANGED <<version, verResult, options, services, volumes, networks, parsed,
                   merged, flat, serviceConfigs, preSaw, postSaw, foldVars, envVars>>

\* lines 150-153
ConvertV1 ==
    /\ pc = "convertV1"
    /\ \/ /\ Fail("convertV1", "convert services")
          /\ UNCHANGED <<serviceConfigs, merged>>
       \/ /\ serviceConfigs' = MapOf(ToServiceConfigs(services))
          /\ merged' = Seen(ToServiceConfigs(services))
          /\ trace' = Append(trace, "convertV1")
          /\ pc' = "adjust"
          /\ UNCHANGED <<ret, failedAt>>
    /\ UNCHANGED <<version, verResult, options, services, volumes, networks, parsed,
                   flat, preSaw, postSaw, foldVars, envVars>>

\* a plausible slip: the restart policy is left as the parser coerced it
adjustValues_Skip(configs) == configs

\* lines 191-198
adjustValues(configs) ==
    [name \in DOMAIN configs |->
        IF configs[name].Restart = "false"
        THEN [configs[name] EXCEPT !.Restart = "no"]
        ELSE configs[name]]

\* line 156
AdjustValues ==
    /\ pc = "adjust"
    /\ serviceConfigs' = [serviceConfigs EXCEPT !.val = adjustValues(serviceConfigs.val)]
    /\ trace' = Append(trace, "adjust")
    /\ pc' = "postprocess"
    /\ UNCHANGED <<version, verResult, options, services, volumes, networks, parsed,
                   merged, flat, ret, failedAt, preSaw, postSaw, foldVars, envVars>>

\* the caller's Postprocess hooks the model draws from
PostprocessHook(kind, configs) ==
    IF kind = "err" THEN [val |-> configs, err |-> "postprocess"]
    ELSE IF kind = "setfalse"
    THEN [val |-> [name \in DOMAIN configs |-> [configs[name] EXCEPT !.Restart = "false"]],
          err |-> ""]
    ELSE [val |-> configs, err |-> ""]

\* lines 158-164
Postprocess ==
    /\ pc = "postprocess"
    /\ IF Opts.Postprocess = "nil"
       THEN /\ pc' = "volumes"
            /\ UNCHANGED <<serviceConfigs, postSaw, trace, ret, failedAt>>
       ELSE /\ postSaw' = Seen(serviceConfigs.val)
            /\ IF PostprocessHook(Opts.Postprocess, serviceConfigs.val).err /= ""
               THEN /\ Fail("postprocess", "postprocess")
                    /\ UNCHANGED serviceConfigs
               ELSE /\ serviceConfigs' =
                         MapOf(PostprocessHook(Opts.Postprocess, serviceConfigs.val).val)
                    /\ trace' = Append(trace, "postprocess")
                    /\ pc' = "volumes"
                    /\ UNCHANGED <<ret, failedAt>>
    /\ UNCHANGED <<version, verResult, options, services, volumes, networks, parsed,
                   merged, flat, preSaw, foldVars, envVars>>

\* lines 166-170
ConvertVolumes ==
    /\ pc = "volumes"
    /\ \/ Fail("volumes", "convert volumes")
       \/ /\ trace' = Append(trace, "volumes")
          /\ pc' = "networks"
          /\ UNCHANGED <<ret, failedAt>>
    /\ UNCHANGED <<version, verResult, options, services, volumes, networks, parsed,
                   merged, flat, serviceConfigs, preSaw, postSaw, foldVars, envVars>>

\* lines 171-175
ConvertNetworks ==
    /\ pc = "networks"
    /\ \/ Fail("networks", "convert networks")
       \/ /\ trace' = Append(trace, "networks")
          /\ pc' = "returned"
          /\ ret' = [version |-> version, services |-> serviceConfigs,
                     volumes |-> MapOf(volumes), networks |-> MapOf(networks),
                     err |-> ""]
          /\ UNCHANGED failedAt
    /\ UNCHANGED <<version, verResult, options, services, volumes, networks, parsed,
                   merged, flat, serviceConfigs, preSaw, postSaw, foldVars, envVars>>

(***************************************************************************)
(* Spec: one Merge call on a bounded manifest.                             *)
(***************************************************************************)
MergeVersions ==
    { <<>>, <<"2", ".", "1">>, <<"3">>, <<"4">>, <<"1", ".", "2", ".", "3">> }

OptionVals ==
    {[isNil |-> TRUE, Interpolate |-> FALSE, Validate |-> FALSE,
      Preprocess |-> "nil", Postprocess |-> "nil"]}
    \cup {[isNil |-> FALSE, Interpolate |-> i, Validate |-> TRUE,
           Preprocess |-> pre, Postprocess |-> post] :
            i \in BOOLEAN, pre \in {"nil", "id", "err", "norestart"},
            post \in {"nil", "id", "err", "setfalse"}}

ExtendsVals ==
    {Absent, Scalar("base"), Mapping({<<"service", "base">>}), IntVal("7"), NilVal}
ImageVals == {Scalar("$X"), Scalar("${")}
RestartVals == {Absent, BoolVal("false"), Scalar("always")}

WebVals ==
    {RawServiceOf([extends |-> e, image |-> i, restart |-> r]) :
        e \in ExtendsVals, i \in ImageVals, r \in RestartVals}
DbVals ==
    {RawServiceOf([extends |-> Mapping({<<"service", "base">>}), image |-> Scalar("img"),
                   restart |-> BoolVal("false")]),
     RawServiceOf([extends |-> Scalar("web"), image |-> Scalar("$X"),
                   restart |-> Absent])}

ServiceMaps ==
    {[name \in {"web"} |-> w] : w \in WebVals}
    \cup {[name \in {"web", "db"} |-> IF name = "web" THEN w ELSE d] :
            w \in WebVals, d \in DbVals}

EmptyRawMap == [name \in {} |-> Absent]
VolumeMaps == {EmptyRawMap, [name \in {"data"} |-> Mapping({<<"driver", "$X">>})]}
NetworkMaps == {EmptyRawMap, [name \in {"front"} |-> Mapping({<<"driver", "${">>})]}

Init ==
    /\ version \in MergeVersions
    /\ options \in OptionVals
    /\ services \in ServiceMaps
    /\ parsed = services
    /\ volumes \in VolumeMaps
    /\ networks \in NetworkMaps
    /\ merged = Unset
    /\ flat = FALSE
    /\ serviceConfigs = NilMap
    /\ ret = NoRet
    /\ trace = <<>>
    /\ failedAt = None
    /\ preSaw = Unset
    /\ postSaw = Unset
    /\ pc = "start"
    /\ verResult = NoVerResult
    /\ FoldIdle /\ EnvIdle

Next ==
    \/ CreateConfig
    \/ NormalizeExtends
    \/ InterpolateAll
    \/ Preprocess
    \/ FatalV3
    \/ MergeV2
    \/ MergeV1
    \/ ConvertV1
    \/ AdjustValues
    \/ Postprocess
    \/ ConvertVolumes
    \/ ConvertNetworks

Spec == Init /\ [][Next]_vars

(***************************************************************************)
(* Properties of the Merge pipeline.                                       *)
(***************************************************************************)
InTrace(stage) == \E i \in 1..Len(trace) : trace[i] = stage
LastStage == IF trace = <<>> THEN None ELSE trace[Len(trace)]
NoFalseRestart(configs) == \A name \in DOMAIN configs : configs[name].Restart /= "false"

\* C5: a manifest of major version 3 makes Merge return an error (empty
\* version, nil maps, non-nil error); the process is not ended and no result
\* is returned.
C5_V3ReturnsError ==
    getComposeMajorVersion(version).err = "" /\ Major = 3 =>
        /\ pc /= "exited"
        /\ pc = "returned" =>
              /\ ret.err /= ""
              /\ ret.version = <<>>
              /\ ret.services.nil /\ ret.volumes.nil /\ ret.networks.nil

\* what the restart adjustment is said to do to the merged configs
RestartAdjusted(configs) ==
    [name \in DOMAIN configs |->
        [Restart |-> IF configs[name].Restart = "false" THEN "no"
                     ELSE configs[name].Restart,
         Image |-> configs[name].Image]]

\* C6 as stated: whatever the Postprocess hook, no config a successful Merge
\* returns has Restart "false", and one that reached conversion as "false" is
\* returned as "no".
C6_NeverFalseAtEnd ==
    pc = "returned" /\ ret.err = "" =>
        /\ NoFalseRestart(ret.services.val)
        /\ \A name \in DOMAIN merged.val :
              merged.val[name].Restart = "false" =>
                  /\ name \in DOMAIN ret.services.val
                  /\ ret.services.val[name].Restart = "no"

\* C6 amended: the configs handed to the Postprocess hook, and the configs
\* returned when no hook is set, hold no Restart "false": "false" has become
\* "no" and nothing else has changed.
C6_RestartAdjusted ==
    /\ pc = "postprocess" =>
          /\ serviceConfigs.val = RestartAdjusted(merged.val)
          /\ NoFalseRestart(serviceConfigs.val)
    /\ postSaw.set =>
          /\ postSaw.val = RestartAdjusted(merged.val)
          /\ NoFalseRestart(postSaw.val)
    /\ pc = "returned" /\ ret.err = "" /\ Opts.Postprocess = "nil" =>
          /\ ret.services.val = RestartAdjusted(merged.val)
          /\ NoFalseRestart(ret.services.val)

\* a successful Merge without a hook returned "no" for a coerced restart
\* policy next to a service whose policy was left alone
C6_Witness ==
    /\ pc = "returned" /\ ret.err = "" /\ Opts.Postprocess = "nil"
    /\ \E a, b \in DOMAIN ret.services.val :
          /\ a /= b
          /\ merged.val[a].Restart = "false" /\ ret.services.val[a].Restart = "no"
          /\ merged.val[b].Restart = "always" /\ ret.services.val[b].Restart = "always"

C8_AllOrNothing ==
    /\ failedAt /= None =>
          /\ pc = "returned"
          /\ ret.err /= ""
          /\ LastStage = failedAt
    /\ pc = "returned" /\ ret.err /= "" =>
          /\ failedAt /= None
          /\ ret.version = <<>>
          /\ ret.services.nil /\ ret.volumes.nil /\ ret.networks.nil
    /\ pc = "returned" /\ ret.err = "" =>
          /\ failedAt = None
          /\ LastStage = "networks"
          /\ ~ret.volumes.nil /\ ~ret.networks.nil
          /\ ret.version = version

\* the Postprocess hook failed with the services already built, and none of
\* them was returned
C8_Witness ==
    /\ pc = "returned" /\ failedAt = "postprocess"
    /\ ~serviceConfigs.nil /\ DOMAIN serviceConfigs.val /= {}
    /\ version /= <<>>
    /\ ret.services.nil /\ ret.err /= ""

\* C9: the v1 path is taken only when the major version is below 2, which
\* is when CreateConfig re-parsed the services as a flat map; version 2 takes
\* the v2 path; no major version above 2 is processed by the v1 path.
C9_DispatchConsistent ==
    /\ InTrace("mergeV1") => Major < 2 /\ flat
    /\ InTrace("mergeV2") => Major = 2 /\ ~flat
    /\ Major > 2 => ~InTrace("mergeV1") /\ ~InTrace("convertV1")

StageRank(order, stage) == CHOOSE i \in 1..Len(order) : order[i] = stage
InOrder(order) ==
    \A i, j \in 1..Len(trace) :
        i < j => StageRank(order, trace[i]) < StageRank(order, trace[j])

ClaimedOrder ==
    <<"parse", "interpolate", "extends", "preprocess", "mergeV1", "convertV1",
      "mergeV2", "adjust", "postprocess", "volumes", "networks">>
CodeOrder ==
    <<"parse", "extends", "interpolate", "preprocess", "mergeV1", "convertV1",
      "mergeV2", "adjust", "postprocess", "volumes", "networks">>

HasReference(m) ==
    \E name \in DOMAIN m : \E f \in DOMAIN m[name] :
        \/ \E i \in 1..Len(m[name][f].v) : m[name][f].v[i] = "$X"
        \/ \E p \in m[name][f].m : p[2] = "$X"
HasShorthand(m) ==
    \E name \in DOMAIN m : "extends" \in DOMAIN m[name] /\ m[name]["extends"].k = "str"

\* what C10 says of the hooks and of the options, apart from the order
HookViews ==
    /\ InTrace("interpolate") => Opts.Interpolate
    /\ Opts.Interpolate /\ pc \in {"preprocess", "dispatch", "adjust", "postprocess"}
          => InTrace("interpolate")
    /\ options.isNil => (~preSaw.set /\ ~postSaw.set /\ Opts.Interpolate)
    /\ preSaw.set =>
          /\ ~HasShorthand(preSaw.val)
          /\ Opts.Interpolate => ~HasReference(preSaw.val)
          /\ InTrace("preprocess")
    /\ postSaw.set =>
          /\ InTrace("adjust") /\ InTrace("postprocess")
          /\ NoFalseRestart(postSaw.val)

\* C10 as stated: interpolation runs before the extends normalization.
C10_ClaimedStageOrder == InOrder(ClaimedOrder) /\ HookViews

\* C10 amended: the stages run in the order parse/classify, extends
\* normalization, interpolation (when enabled), Preprocess hook, merge and
\* conversion, adjustValues, Postprocess hook, volumes/networks conversion.
C10_StageOrder == InOrder(CodeOrder) /\ HookViews

\* a v2 manifest went through every stage, both hooks set
C10_Witness ==
    /\ pc = "returned" /\ ret.err = ""
    /\ trace = <<"parse", "extends", "interpolate", "preprocess", "mergeV2",
                 "adjust", "postprocess", "volumes", "networks">>
    /\ HasShorthand(parsed) /\ HasReference(parsed)

=============================================================================
